---- MODULE Spec2Model ----
(***************************************************************************)
(* Model of bodhi/views.py: the /updates/ service.                         *)
(*   GET  /updates/  -> query_updates  (the query filter composer)         *)
(*   POST /updates/  -> new_update     (validator chain, then create/edit) *)
(* The validators, Update.new, Update.edit and the persisted store are     *)
(* imported by views.py from modules that are not part of the sources; they *)
(* are modelled from the written specification.                            *)
(***************************************************************************)
EXTENDS Integers, Sequences, FiniteSets, TLC

VARIABLES
    updates,    \* the Update table: a sequence of Update rows, in insertion order
    slot,       \* per concurrent POST request: its position and request state
    clock,      \* number of POST requests received so far; also the time "now"
    qdata,      \* GET: request.validated of the query, None before it
    qresult     \* GET: per Update row, how often it occurs in the returned list

vars == <<updates, slot, clock, qdata, qresult>>

(***************************************************************************)
(* Python values.  An optional value (None or a value) is a set with at    *)
(* most one element; a nullable column is the same.                        *)
(***************************************************************************)
None == {}
Some(v) == {v}

RECURSIVE Range(_)
Range(s) == IF s = <<>> THEN {} ELSE {Head(s)} \cup Range(Tail(s))

(***************************************************************************)
(* Reference data: builds known to the model, their package and release,   *)
(* and what the build system and the ownership service answer for them.    *)
(* Build identifiers (NVR strings) are numbered; their order is the string *)
(* order.                                                                  *)
(***************************************************************************)
Builds == 1..7
WellFormed == Builds \ {4}          \* 4 does not parse as name-version-release
GoodVersion == Builds \ {5}         \* 5 has a version outside the grammar
InBuildSystem == Builds \ {6}       \* 6 is unknown to the build system
Tagged == Builds \ {7}              \* 7 carries no candidate/testing tag
PackageOf(b) == IF b = 2 THEN "p2" ELSE "p1"
ReleaseOf(b) == IF b = 3 THEN "F21" ELSE "F20"
Users == {"alice", "bob"}
Acl(user) == IF user = "alice" THEN {"p1", "p2"} ELSE {"p2"}

UpdateStatus == {"pending", "testing", "stable", "obsolete", "unpushed"}
UpdateRequest == {"testing", "stable", "obsolete", "unpush"}
UpdateType == {"bugfix", "enhancement", "security", "newpackage"}
UpdateSeverity == {"unspecified", "urgent"}
UpdateSuggest == {"unspecified", "reboot"}

\* The title of an Update: its build identifiers, sorted.
RECURSIVE SortedSeq(_)
SortedSeq(S) ==
    IF S = {} THEN <<>>
    ELSE LET m == CHOOSE x \in S : \A y \in S : x <= y
         IN <<m>> \o SortedSeq(S \ {m})

Title(builds) == SortedSeq(builds)

(***************************************************************************)
(* The Update row.  Nullable columns (request and the dates) hold None or  *)
(* Some(value); builds, bugs and cves are the association tables.          *)
(***************************************************************************)
Update(builds, user, type, now) ==
    [title |-> Title(builds), builds |-> builds, bugs |-> {}, cves |-> {},
     user |-> user, release |-> ReleaseOf(CHOOSE b \in builds : TRUE),
     status |-> "pending", request |-> None, type |-> type,
     severity |-> "unspecified", suggest |-> "unspecified",
     locked |-> FALSE, critpath |-> FALSE, pushed |-> FALSE,
     qa_approved |-> FALSE, releng_approved |-> FALSE, security_approved |-> FALSE,
     qa_approval_date |-> None, releng_approval_date |-> None,
     security_approval_date |-> None,
     date_submitted |-> Some(now), date_modified |-> None,
     date_approved |-> None, date_pushed |-> None]

(***************************************************************************)
(* GET /updates/ : query_updates.                                          *)
(* A query is the set of its result rows.  A row names an Update and, once *)
(* joined, the Bug, CVE and Build row it was joined with.                  *)
(***************************************************************************)
Val(opt) == CHOOSE v \in opt : TRUE

\* db.query(Update)
BaseQuery(db) ==
    {[u |-> i, bug |-> None, cve |-> None, build |-> None] : i \in 1..Len(db)}

\* sqlalchemy.sql.or_ of a list of clauses already evaluated on one row; the
\* empty or_() is an empty clause list, which filter() adds no criterion for.
or_(clauses) ==
    IF clauses = <<>> THEN TRUE ELSE \E i \in 1..Len(clauses) : clauses[i]

\* query.filter(Update.<col> >= value); a NULL column compares as unknown.
FilterSince(db, query, opt, col) ==
    IF opt # None
    THEN {r \in query : \E d \in db[r.u][col] : d >= Val(opt)}
    ELSE query

\* query.filter_by(<col>=value)
FilterBy(db, query, opt, col) ==
    IF opt # None
    THEN {r \in query : db[r.u][col] = Val(opt)}
    ELSE query

filter_approved_since(db, data, query) ==
    FilterSince(db, query, data.approved_since, "date_approved")

filter_bugs(db, data, query) ==
    IF data.bugs # None
    THEN LET bugs == Val(data.bugs)
             joined == UNION {{[r EXCEPT !.bug = Some(b)] : b \in db[r.u].bugs}
                              : r \in query}
         IN {r \in joined :
                or_([i \in 1..Len(bugs) |-> Val(r.bug) = bugs[i]])}
    ELSE query

filter_critpath(db, data, query) ==
    FilterBy(db, query, data.critpath, "critpath")

filter_cves(db, data, query) ==
    IF data.cves # None
    THEN LET cves == Val(data.cves)
             joined == UNION {{[r EXCEPT !.cve = Some(c)] : c \in db[r.u].cves}
                              : r \in query}
         IN {r \in joined :
                or_([i \in 1..Len(cves) |-> Val(r.cve) = cves[i]])}
    ELSE query

filter_locked(db, data, query) ==
    FilterBy(db, query, data.locked, "locked")

filter_modified_since(db, data, query) ==
    FilterSince(db, query, data.modified_since, "date_modified")

filter_packages(db, data, query) ==
    IF data.packages # None
    THEN LET packages == Val(data.packages)
             joined == UNION {{[r EXCEPT !.build = Some(b)] : b \in db[r.u].builds}
                              : r \in query}
         IN {r \in joined :
                or_([i \in 1..Len(packages) |->
                        PackageOf(Val(r.build)) = packages[i]])}
    ELSE query

filter_pushed(db, data, query) ==
    FilterBy(db, query, data.pushed, "pushed")

filter_pushed_since(db, data, query) ==
    FilterSince(db, query, data.pushed_since, "date_pushed")

filter_qa_approved(db, data, query) ==
    FilterBy(db, query, data.qa_approved, "qa_approved")

filter_qa_approved_since(db, data, query) ==
    FilterSince(db, query, data.qa_approved_since, "qa_approval_date")

filter_releases(db, data, query) ==
    IF data.releases # None
    THEN LET releases == Val(data.releases)
         IN {r \in query :
                or_([i \in 1..Len(releases) |-> db[r.u].release = releases[i]])}
    ELSE query

filter_releng_approved(db, data, query) ==
    FilterBy(db, query, data.releng_approved, "releng_approved")

filter_releng_approved_since(db, data, query) ==
    FilterSince(db, query, data.releng_approved_since, "releng_approval_date")

\* filter_by(request=req): the request column is nullable
filter_request(db, data, query) ==
    IF data.request # None
    THEN {r \in query : db[r.u].request = data.request}
    ELSE query

filter_security_approved(db, data, query) ==
    FilterBy(db, query, data.security_approved, "security_approved")

filter_security_approved_since(db, data, query) ==
    FilterSince(db, query, data.security_approved_since, "security_approval_date")

filter_severity(db, data, query) ==
    FilterBy(db, query, data.severity, "severity")

\* A status block that starts over from db.query(Update).
filter_status_restart(db, data, query) ==
    IF data.status # None
    THEN {r \in BaseQuery(db) : db[r.u].status = Val(data.status)}
    ELSE query

filter_status(db, data, query) ==
    FilterBy(db, query, data.status, "status")

filter_submitted_since(db, data, query) ==
    FilterSince(db, query, data.submitted_since, "date_submitted")

filter_suggest(db, data, query) ==
    FilterBy(db, query, data.suggest, "suggest")

filter_type(db, data, query) ==
    FilterBy(db, query, data.type, "type")

filter_user(db, data, query) ==
    FilterBy(db, query, data.user, "user")

\* The blocks of query_updates in the order of the code.
ComposeQuery(db, data) ==
    LET q01 == filter_approved_since(db, data, BaseQuery(db))
        q02 == filter_bugs(db, data, q01)
        q03 == filter_critpath(db, data, q02)
        q04 == filter_cves(db, data, q03)
        q05 == filter_locked(db, data, q04)
        q06 == filter_modified_since(db, data, q05)
        q07 == filter_packages(db, data, q06)
        q08 == filter_pushed(db, data, q07)
        q09 == filter_pushed_since(db, data, q08)
        q10 == filter_qa_approved(db, data, q09)
        q11 == filter_qa_approved_since(db, data, q10)
        q12 == filter_releases(db, data, q11)
        q13 == filter_releng_approved(db, data, q12)
        q14 == filter_releng_approved_since(db, data, q13)
        q15 == filter_request(db, data, q14)
        q16 == filter_security_approved(db, data, q15)
        q17 == filter_security_approved_since(db, data, q16)
        q18 == filter_severity(db, data, q17)
        q19 == filter_status(db, data, q18)
        q20 == filter_submitted_since(db, data, q19)
        q21 == filter_suggest(db, data, q20)
        q22 == filter_type(db, data, q21)
    IN filter_user(db, data, q22)

\* Iterating a Query over the single entity Update: the ORM returns each
\* Update object once, however many joined rows carry it.
IterateQuery(db, query) ==
    [i \in 1..Len(db) |-> IF \E r \in query : r.u = i THEN 1 ELSE 0]

\* query_updates: how many times each Update row is in the returned list.
query_updates(db, data) == IterateQuery(db, ComposeQuery(db, data))

(***************************************************************************)
(* Inputs of GET /updates/.                                                *)
(***************************************************************************)
\* The options query_updates reads, in the order it reads them.
Options ==
    <<"approved_since", "bugs", "critpath", "cves", "locked", "modified_since",
      "packages", "pushed", "pushed_since", "qa_approved", "qa_approved_since",
      "releases", "releng_approved", "releng_approved_since", "request",
      "security_approved", "security_approved_since", "severity", "status",
      "submitted_since", "suggest", "type", "user">>

OptionNames == Range(Options)

SinceOptions ==
    {"approved_since", "modified_since", "pushed_since", "qa_approved_since",
     "releng_approved_since", "security_approved_since", "submitted_since"}

BoolOptions ==
    {"critpath", "locked", "pushed", "qa_approved", "releng_approved",
     "security_approved"}

ListOptions == {"bugs", "cves", "packages", "releases"}

\* The lists without repetition over a two-element set {a, b}.
ListsOver(a, b) == {<<>>, <<a>>, <<b>>, <<a, b>>}

\* The values an option is drawn from when it is present.
OptionValues(o) ==
    CASE o \in SinceOptions -> {2}
      [] o \in BoolOptions -> BOOLEAN
      [] o = "bugs" -> ListsOver(1, 2)
      [] o = "cves" -> ListsOver(1, 2)
      [] o = "packages" -> ListsOver("p1", "p2")
      [] o = "releases" -> ListsOver("F20", "F21")
      [] o = "request" -> {"testing", "stable"}
      [] o = "severity" -> UpdateSeverity
      [] o = "status" -> {"testing", "stable"}
      [] o = "suggest" -> UpdateSuggest
      [] o = "type" -> {"bugfix", "security"}
      [] o = "user" -> Users

NoFilters == [o \in OptionNames |-> None]

Present(data) == {o \in OptionNames : data[o] # None}

MaxPresent == 2

\* The choices of at most k options: increasing sequences of their places
\* in Options.
RECURSIVE Picks(_)
Picks(k) ==
    IF k = 0 THEN {<<>>}
    ELSE LET prev == Picks(k - 1)
         IN prev \cup UNION {{Append(p, j) :
                                j \in (IF p = <<>> THEN 1 ELSE p[Len(p)] + 1)..Len(Options)}
                              : p \in prev}

\* The choices of a value for each picked option.
RECURSIVE Values(_)
Values(p) ==
    IF p = <<>> THEN {<<>>}
    ELSE {<<v>> \o t : v \in OptionValues(Options[Head(p)]), t \in Values(Tail(p))}

\* request.validated with the picked options present.
Filter(p, vals) ==
    [o \in OptionNames |->
        IF \E k \in 1..Len(p) : Options[p[k]] = o
        THEN Some(vals[CHOOSE k \in 1..Len(p) : Options[p[k]] = o])
        ELSE None]

(***************************************************************************)
(* Stores the queries run against: empty, a reference Update alone, or the *)
(* reference Update followed by every Update that differs from it in one   *)
(* given column (its builds determine its title and release).              *)
(***************************************************************************)
RefUpdate ==
    [Update({1}, "alice", "security", 2) EXCEPT
        !.bugs = {1}, !.cves = {1}, !.status = "stable",
        !.request = Some("stable"), !.severity = "urgent", !.suggest = "reboot",
        !.pushed = TRUE, !.qa_approved = TRUE, !.releng_approved = TRUE,
        !.security_approved = TRUE, !.qa_approval_date = Some(2),
        !.releng_approval_date = Some(2), !.security_approval_date = Some(2),
        !.date_modified = Some(2), !.date_approved = Some(2),
        !.date_pushed = Some(2)]

NullableDates == {None, Some(1), Some(2), Some(3)}

ColumnValues(col) ==
    CASE col \in {"qa_approval_date", "releng_approval_date", "security_approval_date",
                  "date_submitted", "date_modified", "date_approved", "date_pushed"}
            -> NullableDates
      [] col \in {"locked", "critpath", "pushed", "qa_approved", "releng_approved",
                  "security_approved"} -> BOOLEAN
      [] col \in {"bugs", "cves"} -> SUBSET {1, 2}
      [] col = "user" -> Users
      [] col = "status" -> UpdateStatus
      [] col = "request" -> {None} \cup {Some(q) : q \in UpdateRequest}
      [] col = "type" -> UpdateType
      [] col = "severity" -> UpdateSeverity
      [] col = "suggest" -> UpdateSuggest

FreeColumns == (DOMAIN RefUpdate) \ {"title", "builds", "release"}

WithBuilds(u, builds) ==
    [u EXCEPT !.builds = builds, !.title = Title(builds),
              !.release = ReleaseOf(CHOOSE b \in builds : TRUE)]

RECURSIVE SeqOf(_)
SeqOf(S) ==
    IF S = {} THEN <<>>
    ELSE LET x == CHOOSE y \in S : TRUE IN <<x>> \o SeqOf(S \ {x})

Variants(col) ==
    IF col = "builds"
    THEN {WithBuilds(RefUpdate, B) : B \in {{2}, {1, 2}, {3}}}
    ELSE {[RefUpdate EXCEPT ![col] = v] : v \in ColumnValues(col) \ {RefUpdate[col]}}

QStores ==
    {<<>>, <<RefUpdate>>}
    \cup {<<RefUpdate>> \o SeqOf(Variants(col)) : col \in FreeColumns \cup {"builds"}}

(***************************************************************************)
(* POST /updates/ : the validators.  Each returns the errors it adds to    *)
(* request.errors for the submission `data` against the store `db`.        *)
(***************************************************************************)
Error(name, description) ==
    [location |-> "body", name |-> name, description |-> description]

validate_nvrs(db, data) ==
    IF \E i \in 1..Len(data.builds) : data.builds[i] \notin WellFormed
    THEN <<Error("builds", "InvalidBuildIdentifier")>> ELSE <<>>

validate_version(db, data) ==
    IF \E i \in 1..Len(data.builds) : data.builds[i] \notin GoodVersion
    THEN <<Error("builds", "InvalidVersion")>> ELSE <<>>

validate_builds(db, data) ==
    IF \E i \in 1..Len(data.builds) : data.builds[i] \notin InBuildSystem
    THEN <<Error("builds", "UnknownBuild")>>
    ELSE IF \E i, j \in 1..Len(data.builds) :
                ReleaseOf(data.builds[i]) # ReleaseOf(data.builds[j])
         THEN <<Error("builds", "ReleaseMismatch")>> ELSE <<>>

\* Update rows that are open (not obsolete) and hold build b.
OpenOwners(db, b) ==
    {i \in 1..Len(db) : db[i].status # "obsolete" /\ b \in db[i].builds}

validate_uniqueness(db, data) ==
    IF \E k \in 1..Len(data.builds) : \E i \in OpenOwners(db, data.builds[k]) :
            data.edited # Some(db[i].title)
    THEN <<Error("builds", "DuplicateBuild")>> ELSE <<>>

validate_tags(db, data) ==
    IF \E i \in 1..Len(data.builds) : data.builds[i] \notin Tagged
    THEN <<Error("builds", "UntaggedBuild")>> ELSE <<>>

Authorized(user, builds) == \A b \in builds : PackageOf(b) \in Acl(user)

validate_acls(db, data) ==
    IF ~Authorized(data.user, Range(data.builds))
    THEN <<Error("builds", "Forbidden")>> ELSE <<>>

validate_enums(db, data) ==
    IF data.type \notin UpdateType
    THEN <<Error("type", "InvalidEnumValue")>> ELSE <<>>

Validator(name, db, data) ==
    CASE name = "validate_nvrs" -> validate_nvrs(db, data)
      [] name = "validate_version" -> validate_version(db, data)
      [] name = "validate_builds" -> validate_builds(db, data)
      [] name = "validate_uniqueness" -> validate_uniqueness(db, data)
      [] name = "validate_tags" -> validate_tags(db, data)
      [] name = "validate_acls" -> validate_acls(db, data)
      [] name = "validate_enums" -> validate_enums(db, data)

\* The validators tuple with validate_uniqueness left out.
validators_without_uniqueness ==
    <<"validate_nvrs", "validate_version", "validate_builds",
      "validate_tags", "validate_acls", "validate_enums">>

\* validators=(...) of @updates.post
validators ==
    <<"validate_nvrs", "validate_version", "validate_builds",
      "validate_uniqueness", "validate_tags", "validate_acls", "validate_enums">>

\* The service wrapper calls every validator of the tuple in turn; each adds
\* its errors to request.errors.  Result: the errors after the first n calls.
RECURSIVE ErrorsAfter(_, _, _)
ErrorsAfter(n, db, data) ==
    IF n = 0 THEN <<>>
    ELSE ErrorsAfter(n - 1, db, data) \o Validator(validators[n], db, data)

RunValidators(db, data) == ErrorsAfter(Len(validators), db, data)

(***************************************************************************)
(* Update.new and Update.edit against the persisted store.  Each is one    *)
(* transaction: it either commits all its changes or raises and commits    *)
(* none.  The store refuses a commit that would leave a build in two open  *)
(* Updates.  Result: the set of possible outcomes.                         *)
(***************************************************************************)
Raise(db, kind) == [raised |-> Some(kind), db |-> db, up |-> 0]
Commit(db, up) == [raised |-> None, db |-> db, up |-> up]

BuildConstraintHolds(db) ==
    \A b \in Builds : Cardinality(OpenOwners(db, b)) <= 1

Update_new(db, data, now) ==
    LET new == Append(db, Update(Range(data.builds), data.user, data.type, now))
    IN IF BuildConstraintHolds(new)
       THEN {Commit(new, Len(new))}
       ELSE {Raise(db, "ConcurrentConflict")}

Update_edit(db, data, now) ==
    LET found == {i \in 1..Len(db) : Some(db[i].title) = data.edited}
        edit(i) ==
            LET up == [WithBuilds(db[i], Range(data.builds)) EXCEPT
                          !.type = data.type, !.date_modified = Some(now)]
                new == [db EXCEPT ![i] = up]
            IN IF ~(data.user = db[i].user
                    \/ Authorized(data.user, Range(data.builds) \cup db[i].builds))
               THEN Raise(db, "Forbidden")
               ELSE IF BuildConstraintHolds(new)
                    THEN Commit(new, i)
                    ELSE Raise(db, "ConcurrentConflict")
    IN IF found = {} THEN {Raise(db, "NotFound")}
       ELSE {edit(i) : i \in found}

\* up.__json__(): every attribute of the Update with its build, bug and CVE
\* identifiers.
to_json(up) == up

(***************************************************************************)
(* POST /updates/ : new_update.                                            *)
(***************************************************************************)
\* Python truth value of data.get('edited'): None and '' are false.
Truthy(opt) == opt # None /\ opt # Some(<<>>)

\* The branch of new_update with the test inverted.
SaveUpdateInverted(db, data, now) ==
    IF ~Truthy(data.edited)
    THEN Update_edit(db, data, now)
    ELSE Update_new(db, data, now)

\* The branch of new_update taking Update.edit whatever `edited` is.
SaveUpdateAlwaysEdit(db, data, now) == Update_edit(db, data, now)

\* The branch of new_update taking Update.new whatever `edited` is.
SaveUpdateAlwaysNew(db, data, now) == Update_new(db, data, now)

\* try: up = Update.edit(request, data) if data.get('edited')
\*      else Update.new(request, data)
SaveUpdate(db, data, now) ==
    IF Truthy(data.edited)
    THEN Update_edit(db, data, now)
    ELSE Update_new(db, data, now)

ErrorResponse(errors) == [status |-> 400, errors |-> errors]
JsonResponse(json) == [status |-> 200, json |-> json]

\* except: request.errors.add('body', 'builds', 'Unable to create update')
UnableToCreate == Error("builds", "Unable to create update")

(***************************************************************************)
(* Inputs of POST /updates/.                                               *)
(***************************************************************************)
MaxBuilds == 2
MaxRequests == 2

RECURSIVE SeqsUpTo(_, _)
SeqsUpTo(S, n) ==
    IF n = 0 THEN {<<>>}
    ELSE LET prev == SeqsUpTo(S, n - 1)
         IN prev \cup {Append(q, x) : q \in prev, x \in S}

\* A title no Update carries: build 6 is unknown to the build system.
MissingTitle == Title({6})

Titles(db) == {db[i].title : i \in 1..Len(db)}

\* Every submission over all builds, with a bad enum value and an empty
\* `edited` among the choices.
AllBuildLists == SeqsUpTo(Builds, MaxBuilds) \ {<<>>}

AllSubmissions(db) ==
    [builds : AllBuildLists,
     edited : {None, Some(<<>>), Some(MissingTitle)} \cup {Some(t) : t \in Titles(db)},
     type : {"bugfix", "bogus"},
     user : Users]

\* The submissions of the concurrent runs: lists without repetition of two
\* good builds of different packages and an untagged one.
CoreBuilds == {1, 2, 7}

CoreBuildLists ==
    {q \in SeqsUpTo(CoreBuilds, MaxBuilds) : q # <<>> /\ Cardinality(Range(q)) = Len(q)}

CoreSubmissions(db) ==
    [builds : CoreBuildLists,
     edited : {None, Some(MissingTitle)} \cup {Some(t) : t \in Titles(db)},
     type : {"bugfix"},
     user : Users]

ObsoleteUpdate ==
    [Update({1}, "alice", "security", 0) EXCEPT !.status = "obsolete"]

\* Stores the concurrent runs start from: empty, one obsolete Update, or one
\* open Update submitted by alice.
Stores == {<<>>, <<ObsoleteUpdate>>, <<Update({1}, "alice", "security", 0)>>}

\* Stores of the single-request runs.
VStores ==
    Stores \cup {<<Update({2}, "bob", "security", 0)>>,
                 <<ObsoleteUpdate, Update({1, 2}, "alice", "security", 0)>>}

(***************************************************************************)
(* State machine of the GET handler.                                       *)
(***************************************************************************)
Slots == {1, 2}
Idle == [pc |-> "idle"]

QInit ==
    /\ updates \in QStores
    /\ slot = [r \in Slots |-> Idle]
    /\ clock = 0
    /\ qdata = None
    /\ qresult = None

\* GET /updates/
GetUpdates ==
    /\ qresult = None
    /\ \E p \in Picks(MaxPresent) : \E vals \in Values(p) :
        LET data == Filter(p, vals)
        IN /\ qdata' = Some(data)
           /\ qresult' = Some(query_updates(updates, data))
    /\ UNCHANGED <<updates, slot, clock>>

QNext == GetUpdates

QSpec == QInit /\ [][QNext]_vars

(***************************************************************************)
(* State machine of the POST handler; up to two requests are in progress.  *)
(***************************************************************************)
Init ==
    /\ updates \in Stores
    /\ slot = [r \in Slots |-> Idle]
    /\ clock = 0
    /\ qdata = None
    /\ qresult = None

\* A request arrives and the service wrapper runs the validators; the view
\* is called only if request.errors is empty, otherwise the errors are the
\* response.
Receive(r, data) ==
    /\ slot[r].pc \in {"idle", "done"}
    /\ LET errors == RunValidators(updates, data)
       IN slot' = [slot EXCEPT ![r] =
                        IF errors = <<>>
                        THEN [pc |-> "view", data |-> data]
                        ELSE [pc |-> "done", raised |-> None,
                              response |-> ErrorResponse(errors)]]
    /\ clock' = clock + 1
    /\ UNCHANGED <<updates, qdata, qresult>>

Validate(r) ==
    /\ clock < MaxRequests
    /\ \E data \in CoreSubmissions(updates) : Receive(r, data)

\* The body of new_update.
new_update(r) ==
    /\ slot[r].pc = "view"
    /\ \E out \in SaveUpdate(updates, slot[r].data, clock) :
        /\ updates' = out.db
        /\ slot' = [slot EXCEPT ![r] =
                        [pc |-> "done", raised |-> out.raised,
                         response |->
                            IF out.raised # None
                            THEN ErrorResponse(<<UnableToCreate>>)
                            ELSE JsonResponse(to_json(out.db[out.up]))]]
    /\ UNCHANGED <<clock, qdata, qresult>>

Next == \E r \in Slots : Validate(r) \/ new_update(r)

Spec == Init /\ [][Next]_vars

(***************************************************************************)
(* Single requests over every submission, from a choice of stores.         *)
(***************************************************************************)
VInit ==
    /\ updates \in VStores
    /\ slot = [r \in Slots |-> Idle]
    /\ clock = 0
    /\ qdata = None
    /\ qresult = None

ValidateAny ==
    /\ clock = 0
    /\ \E data \in AllSubmissions(updates) : Receive(1, data)

VNext == ValidateAny \/ new_update(1)

VSpec == VInit /\ [][VNext]_vars

(***************************************************************************)
(* Properties of POST /updates/ (checked under Spec, C3 under VSpec).      *)
(***************************************************************************)
InView(r) == slot[r].pc = "view"
Done(r) == slot[r].pc = "done"
Descriptions(response) ==
    {response.errors[i].description : i \in 1..Len(response.errors)}
Rejected(r) == Done(r) /\ slot[r].response.status = 400
\* Slot r runs the body of new_update in this step.
ViewStep(r) == InView(r) /\ Done(r)'
\* Slot r receives a request in this step.
ReceiveStep(r) == ~InView(r) /\ slot'[r] # slot[r]

Open(db) == {i \in 1..Len(db) : db[i].status # "obsolete"}
Owned(db, builds) ==
    \E i \in Open(db) : db[i].builds \cap builds # {}

NoSharedBuild ==
    \A i, j \in Open(updates) : i # j => updates[i].builds \cap updates[j].builds = {}

\* C1: no build belongs to two non-obsolete Updates; a submission without
\* `edited` that names a build of an existing non-obsolete Update is
\* rejected with DuplicateBuild, and the number of Updates grows only by an
\* Update whose builds belonged to no non-obsolete Update.
C1_NoDuplicateBuild ==
    /\ [](NoSharedBuild
          /\ \A builds \in CoreBuildLists : \A user \in Users :
                LET data == [builds |-> builds, edited |-> None,
                             type |-> "bugfix", user |-> user]
                IN Owned(updates, Range(builds))
                    => Error("builds", "DuplicateBuild")
                            \in Range(RunValidators(updates, data)))
    /\ [][/\ \A r \in Slots :
                (Rejected(r)' /\ slot'[r] # slot[r]) => updates' = updates
          /\ Len(updates') > Len(updates) =>
                ~Owned(updates, updates'[Len(updates')].builds)]_vars

\* C1 witness: a request was rejected with DuplicateBuild while an open
\* Update exists.
C1_Witness ==
    /\ Open(updates) # {}
    /\ \E r \in Slots :
        Rejected(r) /\ "DuplicateBuild" \in Descriptions(slot[r].response)

\* C2: a creating submission that reaches the body of new_update after
\* another submission took one of its builds creates nothing and is
\* rejected with DuplicateBuild or ConcurrentConflict; no state has two
\* open Updates holding the same build.
C2_RaceLoserRejected ==
    /\ []NoSharedBuild
    /\ [][\A r \in Slots :
            (/\ ViewStep(r)
             /\ slot[r].data.edited = None
             /\ Owned(updates, Range(slot[r].data.builds)))
            => /\ updates' = updates
               /\ Rejected(r)'
               /\ Descriptions(slot'[r].response) \cap
                    {"DuplicateBuild", "ConcurrentConflict"} # {}]_vars

\* C3: the validators run in the fixed order and the chain stops at the
\* first failure, so a submission rejected by the validators carries the
\* reason of the first failing step only.
C3_ShortCircuit ==
    /\ validators = <<"validate_nvrs", "validate_version", "validate_builds",
                      "validate_uniqueness", "validate_tags", "validate_acls",
                      "validate_enums">>
    /\ \A r \in Slots :
            (Rejected(r) /\ slot[r].raised = None)
                => Len(slot[r].response.errors) = 1

\* The requester may edit Update row i with the submitted builds: the
\* submitter, or authorized on every package involved.
MayEdit(db, i, data) ==
    \/ data.user = db[i].user
    \/ Authorized(data.user, Range(data.builds) \cup db[i].builds)

C5_Distinguishable ==
    /\ \A r \in Slots :
        (Done(r) /\ slot[r].raised # None)
            => /\ slot[r].response.status = 400
               /\ Val(slot[r].raised) \in Descriptions(slot[r].response)
    /\ \A r1, r2 \in Slots :
        (/\ Done(r1) /\ Done(r2)
         /\ slot[r1].raised # None /\ slot[r2].raised # None
         /\ slot[r1].raised # slot[r2].raised)
            => slot[r1].response # slot[r2].response

IsSorted(s) == \A i, j \in 1..Len(s) : i < j => s[i] < s[j]

\* C8: a creating submission of N distinct builds, known to the build
\* system, tagged and in no open Update, adds exactly one Update; it is
\* linked to exactly those N builds and its title lists them in sorted
\* order, whatever the order of submission.
C8_CreatesOne ==
    [][\A r \in Slots :
        LET data == slot[r].data
            N == Len(data.builds)
            new == updates'[Len(updates')]
        IN (/\ ViewStep(r)
            /\ data.edited = None
            /\ Cardinality(Range(data.builds)) = N
            /\ Range(data.builds) \subseteq InBuildSystem \cap Tagged
            /\ ~Owned(updates, Range(data.builds)))
           => /\ Len(updates') = Len(updates) + 1
              /\ SubSeq(updates', 1, Len(updates)) = updates
              /\ new.builds = Range(data.builds)
              /\ Cardinality(new.builds) = N
              /\ Len(new.title) = N
              /\ Range(new.title) = Range(data.builds)
              /\ IsSorted(new.title)
              /\ slot'[r].response = JsonResponse(to_json(new))]_vars

\* C8 witness: a creation of an Update with two builds was answered with
\* the Update, which is in the store.
C8_Witness ==
    \E r \in Slots : \E i \in 1..Len(updates) :
        /\ Done(r) /\ slot[r].response.status = 200
        /\ slot[r].response.json = to_json(updates[i])
        /\ Cardinality(updates[i].builds) = MaxBuilds
        /\ updates[i].date_modified = None
        /\ updates[i].date_submitted # Some(0)

\* C10: the store changes only in the body of new_update; with `edited`
\* naming an existing title an Update of that title is modified
\* (date_modified set) and the number of Updates is unchanged; with `edited`
\* absent a new Update is appended with status pending and date_submitted
\* set and no existing Update is modified.  No Update is ever removed.
C10_EditOrCreate ==
    [][/\ Len(updates') >= Len(updates)
       /\ updates' # updates => \E r \in Slots : ViewStep(r)
       /\ \A r \in Slots :
            LET data == slot[r].data
            IN (ViewStep(r) /\ slot'[r].response.status = 200)
               => /\ (\E i \in 1..Len(updates) : Some(updates[i].title) = data.edited)
                     => /\ Len(updates') = Len(updates)
                        /\ \E i \in 1..Len(updates) :
                            /\ Some(updates[i].title) = data.edited
                            /\ updates' = [updates EXCEPT ![i] = updates'[i]]
                            /\ updates'[i].date_modified = Some(clock)
                            /\ updates'[i].date_submitted = updates[i].date_submitted
                  /\ data.edited = None
                     => /\ Len(updates') = Len(updates) + 1
                        /\ SubSeq(updates', 1, Len(updates)) = updates
                        /\ updates'[Len(updates')].status = "pending"
                        /\ updates'[Len(updates')].date_submitted = Some(clock)
                        /\ updates'[Len(updates')].date_modified = None]_vars

\* C10 witness: the store holds an Update that was created by a request and
\* then edited by a later one.
C10_Witness ==
    \E i \in 1..Len(updates) :
        /\ updates[i].date_submitted # Some(0)
        /\ updates[i].date_modified # None
        /\ \E r \in Slots : Done(r) /\ slot[r].response.status = 200
                            /\ slot[r].response.json = to_json(updates[i])

(***************************************************************************)
(* Properties of query_updates (checked under QSpec).                      *)
(***************************************************************************)
\* The column an option restricts.
OptionColumn(o) ==
    CASE o = "approved_since" -> "date_approved"
      [] o = "modified_since" -> "date_modified"
      [] o = "pushed_since" -> "date_pushed"
      [] o = "qa_approved_since" -> "qa_approval_date"
      [] o = "releng_approved_since" -> "releng_approval_date"
      [] o = "security_approved_since" -> "security_approval_date"
      [] o = "submitted_since" -> "date_submitted"
      [] o = "releases" -> "release"
      [] OTHER -> o

\* What it means for Update u to satisfy option o with value v.
Satisfies(u, o, v) ==
    CASE o \in SinceOptions -> u[OptionColumn(o)] # None /\ Val(u[OptionColumn(o)]) >= v
      [] o \in {"bugs", "cves"} -> u[o] \cap Range(v) # {}
      [] o = "packages" -> {PackageOf(b) : b \in u.builds} \cap Range(v) # {}
      [] o = "releases" -> u.release \in Range(v)
      [] o = "request" -> u.request = Some(v)
      [] OTHER -> u[o] = v

Queried == qresult # None
QData == Val(qdata)
Returned(result) == {i \in DOMAIN result : result[i] > 0}

\* C6: the returned set is exactly the set of stored Updates that satisfy
\* every option that is present; absent options impose no restriction.
C6_AndCombined ==
    Queried =>
        Returned(Val(qresult)) =
            {i \in 1..Len(updates) :
                \A o \in Present(QData) : Satisfies(updates[i], o, Val(QData[o]))}

\* C7: composer monotonicity.  For every option o present in the query, the
\* result is a subset of the result of the same query without o.
C7_Monotone ==
    Queried =>
        \A o \in Present(QData) :
            Returned(Val(qresult)) \subseteq
                Returned(query_updates(updates, [QData EXCEPT ![o] = None]))

\* C7 witness: a query with an empty list option and one more option, whose
\* result is strictly smaller than without the list option.
C7_Witness ==
    /\ Queried
    /\ Cardinality(Present(QData)) = MaxPresent
    /\ \E o \in Present(QData) \cap ListOptions :
        /\ QData[o] = Some(<<>>)
        /\ Returned(Val(qresult)) # {}
        /\ Returned(Val(qresult)) #
                Returned(query_updates(updates, [QData EXCEPT ![o] = None]))

\* C9: for each list option that is present, a returned Update is linked to
\* at least one listed value and appears once, and an empty list returns
\* nothing.
C9_AnyListed ==
    Queried =>
        \A o \in Present(QData) \cap ListOptions :
            /\ \A i \in Returned(Val(qresult)) :
                /\ Satisfies(updates[i], o, Val(QData[o]))
                /\ Val(qresult)[i] = 1
            /\ Val(QData[o]) = <<>> => Returned(Val(qresult)) = {}

====
